---- MODULE Spec2Model ----
(***************************************************************************)
(* A model of mockturtle's cover_network                                   *)
(* (include/mockturtle/networks/cover.hpp): the storage arena, the cover   *)
(* table, the structural hash table, the gate builders, the two compute    *)
(* (simulation) overloads and substitute_node with its listeners.          *)
(*                                                                         *)
(* Node ids, cover indices and list positions are 0-based as in the C++    *)
(* code; a TLA+ sequence s holds element i of the C++ vector at s[i + 1].  *)
(***************************************************************************)
EXTENDS Integers, Sequences, FiniteSets, TLC

VARIABLES
  storage,   \* cover_network::_storage (shared cover_storage)
  events,    \* cover_network::_events (the on_add / on_modified listener lists)
  last,      \* the call that produced this state: its name, arguments and result
  added,     \* the on_add listener invocations made by that call, in order
  modified,  \* the on_modified listener invocations made by that call, in order
  nsubst,    \* number of substitute_node calls made so far (bounds the run)
  sim,       \* the last compute call: the node, the inputs and the result
  frame      \* the create_cover_node( children, function ) call in progress

vars == <<storage, events, last, added, modified, nsubst, sim, frame>>

----------------------------------------------------------------------------
(* Bounds of the model.                                                    *)

\* cap on the number of combinational inputs (inputs.size())
MaxInputs == 1
\* cap on the number of gates (num_gates())
MaxGates == 1
\* cap on the number of combinational outputs (outputs.size())
MaxOutputs == 1
\* cap on the number of on_modified listeners
MaxListeners == 1
\* cap on the number of on_add listeners
MaxAddListeners == 2
\* cap on the number of substitute_node calls in one run
MaxSubst == 1

----------------------------------------------------------------------------
(* Bit operations on naturals (the uint32_t fields of kitty::cube).        *)

RECURSIVE BitAnd(_, _)
BitAnd(a, b) ==
  IF a = 0 \/ b = 0 THEN 0
  ELSE (a % 2) * (b % 2) + 2 * BitAnd(a \div 2, b \div 2)

RECURSIVE Pow2(_)
Pow2(n) == IF n = 0 THEN 1 ELSE 2 * Pow2(n - 1)

Bit(x, j) == (x \div Pow2(j)) % 2

\* number of occurrences of x in the sequence s
RECURSIVE Count(_, _)
Count(s, x) ==
  IF s = <<>> THEN 0
  ELSE (IF Head(s) = x THEN 1 ELSE 0) + Count(Tail(s), x)

----------------------------------------------------------------------------
(* kitty::cube: a bit pattern _bits and a care mask _mask.                 *)

\* kitty::cube(): the wildcard cube, no care bit set
cube_dc == [bits |-> 0, mask |-> 0]

\* kitty::cube( std::string ): one character per input, '1' a positive
\* literal, '0' a negative literal, '-' a don't care; the first character
\* is the first input, the most significant position of the pattern.
RECURSIVE cube_from_string(_)
cube_from_string(str) ==
  IF str = <<>> THEN cube_dc
  ELSE LET rest == cube_from_string(Tail(str))
           w    == Pow2(Len(str) - 1)
       IN  [bits |-> rest.bits + (IF Head(str) = "1" THEN w ELSE 0),
            mask |-> rest.mask + (IF Head(str) \in {"0", "1"} THEN w ELSE 0)]

----------------------------------------------------------------------------
(* Storage.                                                                *)

\* cover_storage_node: children, data[0].h1 (fanout), data[0].h2 (value),
\* data[1].h1 (cover index), data[1].h2 (visited)
new_node(children, cover) ==
  [children |-> children, fanout |-> 0, value |-> 0, cover |-> cover, visited |-> 0]

\* the key under which the hash table files a node: operator== compares
\* data[1].h1 and the children
hash_key(n) == [children |-> n.children, cover |-> n.cover]

\* hash[node] = index
hash_put(hash, n, index) ==
  [k \in (DOMAIN hash) \cup {hash_key(n)} |->
     IF k = hash_key(n) THEN index ELSE hash[k]]

\* cover_storage_data::insert: appends, returns the index of the new entry
insert(st, cover) ==
  [st |-> [st EXCEPT !.covers = Append(@, cover)], index |-> Len(st.covers)]

\* the storage a fresh cover_storage holds: one default node
empty_storage ==
  [nodes   |-> <<new_node(<<>>, 0)>>,
   covers  |-> <<>>,
   hash    |-> <<>>,
   inputs  |-> <<>>,
   outputs |-> <<>>,
   latches |-> <<>>,
   num_pis |-> 0,
   num_pos |-> 0,
   trav_id |-> 0]

\* a faulty variant of _init: the two polarities are exchanged
_init_swapped(st) ==
  LET i0 == insert(st, [first |-> <<cube_dc>>, second |-> TRUE])
      s1 == [i0.st EXCEPT !.nodes[1].cover = i0.index]
      s2 == [s1 EXCEPT !.hash = hash_put(@, s1.nodes[1], 0)]
      s3 == [s2 EXCEPT !.nodes = Append(@, new_node(<<>>, 0))]
      i1 == insert(s3, [first |-> <<cube_dc>>, second |-> FALSE])
      s4 == [i1.st EXCEPT !.nodes[2].cover = i1.index]
  IN  [s4 EXCEPT !.hash = hash_put(@, s4.nodes[2], 1)]

\* cover_network::_init
_init(st) ==
  LET i0 == insert(st, [first |-> <<cube_dc>>, second |-> FALSE])
      s1 == [i0.st EXCEPT !.nodes[1].cover = i0.index]
      s2 == [s1 EXCEPT !.hash = hash_put(@, s1.nodes[1], 0)]
      s3 == [s2 EXCEPT !.nodes = Append(@, new_node(<<>>, 0))]
      i1 == insert(s3, [first |-> <<cube_dc>>, second |-> TRUE])
      s4 == [i1.st EXCEPT !.nodes[2].cover = i1.index]
  IN  [s4 EXCEPT !.hash = hash_put(@, s4.nodes[2], 1)]

size(st) == Len(st.nodes)
num_cis(st) == Len(st.inputs)
num_cos(st) == Len(st.outputs)
num_pis(st) == st.num_pis
num_pos(st) == st.num_pos
num_gates(st) == Len(st.nodes) - Len(st.inputs) - 2
fanout_size(st, n) == st.nodes[n + 1].fanout
NodeIds(st) == 0 .. (size(st) - 1)

num_latches(st) == Len(st.latches)

\* cover_network::num_registers: ok is the value of its assertion, ret what
\* it returns
num_registers(st) ==
  [ok  |-> (Len(st.inputs) - st.num_pis) = (Len(st.outputs) - st.num_pos),
   ret |-> Len(st.inputs) - st.num_pis]

get_constant(value) == IF value THEN 1 ELSE 0

----------------------------------------------------------------------------
(* Primary inputs / outputs and registers.                                 *)

\* cover_network::create_pi
create_pi(st) ==
  LET index_node == size(st)
      ic == insert(st, [first |-> <<cube_from_string(<<"1">>)>>, second |-> TRUE])
      node_in == new_node(<<>>, index_node)
  IN  [st  |-> [ic.st EXCEPT !.nodes   = Append(@, node_in),
                             !.hash    = hash_put(@, node_in, index_node),
                             !.inputs  = Append(@, index_node),
                             !.num_pis = @ + 1],
       ret |-> index_node]

\* cover_network::create_po
create_po(st, f) ==
  [st  |-> [st EXCEPT !.nodes[f + 1].fanout = @ + 1,
                      !.outputs = Append(@, f),
                      !.num_pos = @ + 1],
   ret |-> Len(st.outputs)]

\* cover_network::create_ro
create_ro(st) ==
  LET index == size(st)
  IN  [st  |-> [st EXCEPT !.nodes  = Append(@, new_node(<<>>, index)),
                          !.inputs = Append(@, index)],
       ret |-> index]

\* a faulty variant of create_ri: the reset value is not recorded
create_ri_nolatch(st, f, reset) ==
  [st  |-> [st EXCEPT !.nodes[f + 1].fanout = @ + 1,
                      !.outputs = Append(@, f)],
   ret |-> Len(st.outputs)]

\* cover_network::create_ri
create_ri(st, f, reset) ==
  [st  |-> [st EXCEPT !.nodes[f + 1].fanout = @ + 1,
                      !.outputs = Append(@, f),
                      !.latches = Append(@, reset)],
   ret |-> Len(st.outputs)]

----------------------------------------------------------------------------
(* Node creation.                                                          *)

\* the loop "for ( auto c : children ) nodes[c].data[0].h1++"
RECURSIVE incr_children(_, _)
incr_children(nodes, children) ==
  IF children = <<>> THEN nodes
  ELSE incr_children([nodes EXCEPT ![Head(children) + 1].fanout = @ + 1],
                     Tail(children))

\* a faulty variant of on_add_calls: the listeners are called last to first
on_add_calls_reversed(fns, index, st) ==
  [k \in 1 .. Len(fns) |-> [fn |-> fns[Len(fns) + 1 - k], n |-> index, st |-> st]]

\* the loop "for ( auto const& fn : _events->on_add ) (*fn)( index )":
\* one entry per call, in call order; st is the storage the listener finds
on_add_calls(fns, index, st) ==
  [k \in 1 .. Len(fns) |-> [fn |-> fns[k], n |-> index, st |-> st]]

\* hash.find( node ) != hash.end()
hash_found(hash, n) == hash_key(n) \in DOMAIN hash

\* the children with repetitions dropped
RECURSIVE distinct_children(_)
distinct_children(children) ==
  IF children = <<>> THEN <<>>
  ELSE LET rest == distinct_children(Tail(children))
       IN  IF Count(rest, Head(children)) > 0 THEN rest ELSE <<Head(children)>> \o rest

\* a faulty variant of incr_fanouts: a child that occurs several times is counted once
incr_fanouts_once(nodes, children) ==
  incr_children(nodes, distinct_children(children))

\* "increase ref-count to children" of _create_cover_node
incr_fanouts(nodes, children) == incr_children(nodes, children)

\* a faulty variant of _create_cover_node: a node with the same children and a
\* cover of equal content is looked up first and returned if there is one
_create_cover_node_by_content(st, ev, children, new_cover) ==
  LET same == {n \in NodeIds(st) :
                 /\ st.nodes[n + 1].children = children
                 /\ st.nodes[n + 1].cover < Len(st.covers)
                 /\ st.covers[st.nodes[n + 1].cover + 1] = new_cover}
  IN  IF same # {}
      THEN [st |-> st, ret |-> CHOOSE n \in same : TRUE, added |-> <<>>]
      ELSE LET lit   == insert(st, new_cover)
               node  == new_node(children, lit.index)
               index == size(lit.st)
               s1 == [lit.st EXCEPT !.nodes = Append(@, node),
                                    !.hash  = hash_put(@, node, index)]
               s2 == [s1 EXCEPT !.nodes = incr_fanouts(@, children)]
           IN  [st |-> s2, ret |-> index, added |-> on_add_calls(ev.on_add, index, s2)]

\* cover_network::_create_cover_node
_create_cover_node(st, ev, children, new_cover) ==
  LET lit  == insert(st, new_cover)
      node == new_node(children, lit.index)
      s0   == lit.st
  IN  IF hash_found(s0.hash, node)
      THEN [st |-> s0, ret |-> s0.hash[hash_key(node)], added |-> <<>>]
      ELSE LET index == size(s0)
               s1 == [s0 EXCEPT !.nodes = Append(@, node),
                                !.hash  = hash_put(@, node, index)]
               s2 == [s1 EXCEPT !.nodes = incr_fanouts(@, children)]
               s3 == [s2 EXCEPT !.nodes[index + 1].value = 0]
           IN  [st |-> s3, ret |-> index, added |-> on_add_calls(ev.on_add, index, s3)]

\* a faulty variant of create_cover_node: an empty child list is not special
create_cover_node_unguarded(st, ev, children, new_cover) ==
  _create_cover_node(st, ev, children, new_cover)

\* cover_network::create_cover_node( children, cover )
create_cover_node(st, ev, children, new_cover) ==
  IF Len(children) = 0
  THEN [st |-> st, ret |-> get_constant(new_cover.second), added |-> <<>>]
  ELSE _create_cover_node(st, ev, children, new_cover)

----------------------------------------------------------------------------
(* The primitive gate builders.                                            *)

mk_cover(strs, pol) ==
  [first |-> [k \in 1 .. Len(strs) |-> cube_from_string(strs[k])], second |-> pol]

create_not(st, ev, a) ==
  _create_cover_node(st, ev, <<a>>, mk_cover(<< <<"0">> >>, TRUE))

create_and(st, ev, a, b) ==
  _create_cover_node(st, ev, <<a, b>>, mk_cover(<< <<"1", "1">> >>, TRUE))

create_nand(st, ev, a, b) ==
  _create_cover_node(st, ev, <<a, b>>, mk_cover(<< <<"1", "1">> >>, FALSE))

create_or(st, ev, a, b) ==
  _create_cover_node(st, ev, <<a, b>>, mk_cover(<< <<"0", "0">> >>, FALSE))

create_nor(st, ev, a, b) ==
  _create_cover_node(st, ev, <<a, b>>, mk_cover(<< <<"0", "0">> >>, TRUE))

create_lt(st, ev, a, b) ==
  _create_cover_node(st, ev, <<a, b>>, mk_cover(<< <<"0", "1">> >>, TRUE))

create_le(st, ev, a, b) ==
  _create_cover_node(st, ev, <<a, b>>, mk_cover(<< <<"1", "0">> >>, FALSE))

\* a faulty variant of create_gt: the cube of create_lt
create_gt_as_lt(st, ev, a, b) ==
  _create_cover_node(st, ev, <<a, b>>, mk_cover(<< <<"0", "1">> >>, TRUE))

create_gt(st, ev, a, b) ==
  _create_cover_node(st, ev, <<a, b>>, mk_cover(<< <<"1", "0">> >>, TRUE))

create_ge(st, ev, a, b) ==
  _create_cover_node(st, ev, <<a, b>>, mk_cover(<< <<"0", "1">> >>, FALSE))

create_xor(st, ev, a, b) ==
  _create_cover_node(st, ev, <<a, b>>,
                     mk_cover(<< <<"0", "1">>, <<"1", "0">> >>, TRUE))

create_xnor(st, ev, a, b) ==
  _create_cover_node(st, ev, <<a, b>>,
                     mk_cover(<< <<"0", "0">>, <<"1", "1">> >>, TRUE))

create_maj(st, ev, a, b, c) ==
  _create_cover_node(st, ev, <<a, b, c>>,
                     mk_cover(<< <<"0", "1", "1">>, <<"1", "0", "1">>,
                                 <<"1", "1", "0">>, <<"1", "1", "1">> >>, TRUE))

create_ite(st, ev, a, b, c) ==
  _create_cover_node(st, ev, <<a, b, c>>,
                     mk_cover(<< <<"1", "1", "-">>, <<"0", "-", "1">> >>, TRUE))

create_xor3(st, ev, a, b, c) ==
  _create_cover_node(st, ev, <<a, b, c>>,
                     mk_cover(<< <<"0", "0", "1">>, <<"0", "1", "0">>,
                                 <<"1", "0", "0">>, <<"1", "1", "1">> >>, TRUE))

UnaryKinds   == {"not"}
BinaryKinds  == {"and", "nand", "or", "nor", "lt", "le", "gt", "ge", "xor", "xnor"}
TernaryKinds == {"maj", "ite", "xor3"}
GateKinds    == UnaryKinds \cup BinaryKinds \cup TernaryKinds

GateArity(kind) ==
  IF kind \in UnaryKinds THEN 1 ELSE IF kind \in BinaryKinds THEN 2 ELSE 3

\* a call of the builder named kind with the operands xs
create_gate(kind, st, ev, xs) ==
  CASE kind = "not"  -> create_not(st, ev, xs[1])
    [] kind = "and"  -> create_and(st, ev, xs[1], xs[2])
    [] kind = "nand" -> create_nand(st, ev, xs[1], xs[2])
    [] kind = "or"   -> create_or(st, ev, xs[1], xs[2])
    [] kind = "nor"  -> create_nor(st, ev, xs[1], xs[2])
    [] kind = "lt"   -> create_lt(st, ev, xs[1], xs[2])
    [] kind = "le"   -> create_le(st, ev, xs[1], xs[2])
    [] kind = "gt"   -> create_gt(st, ev, xs[1], xs[2])
    [] kind = "ge"   -> create_ge(st, ev, xs[1], xs[2])
    [] kind = "xor"  -> create_xor(st, ev, xs[1], xs[2])
    [] kind = "xnor" -> create_xnor(st, ev, xs[1], xs[2])
    [] kind = "maj"  -> create_maj(st, ev, xs[1], xs[2], xs[3])
    [] kind = "ite"  -> create_ite(st, ev, xs[1], xs[2], xs[3])
    [] kind = "xor3" -> create_xor3(st, ev, xs[1], xs[2], xs[3])

----------------------------------------------------------------------------
(* Simulation.                                                             *)

\* tree_reduce( first, last, init, op ) with op the binary builder kind:
\* no operand gives init, one operand gives that operand, two give
\* op( a, b ), more give op of the reductions of the two halves
RECURSIVE tree_reduce(_, _, _, _, _)
tree_reduce(kind, st, ev, fs, init) ==
  CASE Len(fs) = 0 -> [st |-> st, ret |-> init, added |-> <<>>]
    [] Len(fs) = 1 -> [st |-> st, ret |-> fs[1], added |-> <<>>]
    [] Len(fs) = 2 -> create_gate(kind, st, ev, fs)
    [] OTHER ->
         LET m == Len(fs) \div 2
             l == tree_reduce(kind, st, ev, SubSeq(fs, 1, m), init)
             r == tree_reduce(kind, l.st, ev, SubSeq(fs, m + 1, Len(fs)), init)
             g == create_gate(kind, r.st, ev, <<l.ret, r.ret>>)
         IN  [st |-> g.st, ret |-> g.ret, added |-> l.added \o r.added \o g.added]

create_nary_and(st, ev, fs) == tree_reduce("and", st, ev, fs, get_constant(TRUE))

create_nary_or(st, ev, fs) == tree_reduce("or", st, ev, fs, get_constant(FALSE))

\* a faulty variant of create_nary_xor: the reduction is seeded with constant true
create_nary_xor_seed_true(st, ev, fs) == tree_reduce("xor", st, ev, fs, get_constant(TRUE))

create_nary_xor(st, ev, fs) == tree_reduce("xor", st, ev, fs, get_constant(FALSE))

NaryKinds == {"and", "or", "xor"}

create_nary(kind, st, ev, fs) ==
  CASE kind = "and" -> create_nary_and(st, ev, fs)
    [] kind = "or"  -> create_nary_or(st, ev, fs)
    [] kind = "xor" -> create_nary_xor(st, ev, fs)

\* a faulty variant of cube_matches: the care masks are ignored
cube_matches_nomask(cb, cb_input) == cb.bits = cb_input.bits

\* the scan "for ( auto cb : cubes_cover.first ) if ( ( cb._bits & cb._mask )
\* == ( cb_input._bits & cb._mask ) )": some cube matches the input pattern
cube_matches(cb, cb_input) ==
  BitAnd(cb.bits, cb.mask) = BitAnd(cb_input.bits, cb.mask)

some_cube_matches(cubes, cb_input) ==
  \E k \in 1 .. Len(cubes) : cube_matches(cubes[k], cb_input)

\* the loop of compute over the input booleans: index <<= 1; index ^= bit
RECURSIVE fold_index(_, _)
fold_index(index, xs) ==
  IF xs = <<>> THEN index
  ELSE fold_index(2 * index + (IF Head(xs) THEN 1 ELSE 0), Tail(xs))

\* cover_network::compute on booleans (single assignment)
compute(st, n, xs) ==
  LET cb_input    == [bits |-> fold_index(0, xs), mask |-> Pow2(Len(xs)) - 1]
      cubes_cover == st.covers[st.nodes[n + 1].cover + 1]
  IN  IF some_cube_matches(cubes_cover.first, cb_input)
      THEN cubes_cover.second
      ELSE ~cubes_cover.second


\* kitty::get_bit( tt, i ) on a simulation vector: bit i is held at tt[i + 1]
get_bit(tt, i) == IF tt[i + 1] THEN 1 ELSE 0

\* the inner loop of vectorized compute at bit position i:
\* pattern |= get_bit( tts[j], i ) << j, for fanin j = 0 .. nfanin - 1
RECURSIVE tt_pattern(_, _, _)
tt_pattern(tts, i, j) ==
  IF j >= Len(tts) THEN 0
  ELSE get_bit(tts[j + 1], i) * Pow2(j) + tt_pattern(tts, i, j + 1)

\* cover_network::compute on simulation vectors (vectorized); the result has
\* the width of the first vector
compute_tt(st, n, tts) ==
  LET nfanin      == Len(st.nodes[n + 1].children)
      cubes_cover == st.covers[st.nodes[n + 1].cover + 1]
  IN  [p \in 1 .. Len(tts[1]) |->
         LET cb_input == [bits |-> tt_pattern(tts, p - 1, 0),
                          mask |-> Pow2(nfanin) - 1]
             is_found == some_cube_matches(cubes_cover.first, cb_input)
         IN  (is_found /\ cubes_cover.second) \/ (~is_found /\ ~cubes_cover.second)]

\* cover_network::is_ci
is_ci(st, n) == \E k \in 1 .. Len(st.inputs) : st.inputs[k] = n

\* cover_network::is_function
is_function(st, n) == n > 1 /\ ~is_ci(st, n)

----------------------------------------------------------------------------
(* Restructuring.                                                          *)

\* the loop "for ( auto const& fn : _events->on_modified ) (*fn)( i, old_children )"
on_modified_calls(fns, i, old_children) ==
  [k \in 1 .. Len(fns) |-> [fn |-> fns[k], n |-> i, old_children |-> old_children]]

\* substitute_node, first loop: node i (0-based), child position j (1-based).
\* At a child equal to old_node the node's children as they are at that
\* moment are copied to old_children, the child is overwritten, the fanout of
\* new_signal is incremented and the listeners are called.
RECURSIVE subst_parents(_, _, _, _, _, _, _)
subst_parents(nodes, log, fns, i, j, old_node, new_signal) ==
  IF i >= Len(nodes) THEN [nodes |-> nodes, log |-> log]
  ELSE IF j > Len(nodes[i + 1].children)
  THEN subst_parents(nodes, log, fns, i + 1, 1, old_node, new_signal)
  ELSE IF nodes[i + 1].children[j] = old_node
  THEN LET old_children == nodes[i + 1].children
           n1 == [nodes EXCEPT ![i + 1].children[j] = new_signal]
           n2 == [n1 EXCEPT ![new_signal + 1].fanout = @ + 1]
       IN  subst_parents(n2, log \o on_modified_calls(fns, i, old_children),
                         fns, i, j + 1, old_node, new_signal)
  ELSE subst_parents(nodes, log, fns, i, j + 1, old_node, new_signal)

\* a faulty variant of subst_outputs: the outputs are not rewritten
subst_outputs_skip(st, k, old_node, new_signal) == st

\* substitute_node, second loop: the outputs, position k (1-based)
RECURSIVE subst_outputs(_, _, _, _)
subst_outputs(st, k, old_node, new_signal) ==
  IF k > Len(st.outputs) THEN st
  ELSE IF st.outputs[k] = old_node
  THEN subst_outputs([st EXCEPT !.outputs[k] = new_signal,
                                !.nodes[new_signal + 1].fanout = @ + 1],
                     k + 1, old_node, new_signal)
  ELSE subst_outputs(st, k + 1, old_node, new_signal)

\* a faulty variant of substitute_node: the replaced node also loses its children
substitute_node_take_out(st, ev, old_node, new_signal) ==
  LET p  == subst_parents(st.nodes, <<>>, ev.on_modified, 0, 1, old_node, new_signal)
      s1 == [st EXCEPT !.nodes = p.nodes]
      s2 == subst_outputs(s1, 1, old_node, new_signal)
  IN  [st |-> [s2 EXCEPT !.nodes[old_node + 1].fanout = 0,
                         !.nodes[old_node + 1].children = <<>>],
       modified |-> p.log]

\* cover_network::substitute_node
substitute_node(st, ev, old_node, new_signal) ==
  LET p  == subst_parents(st.nodes, <<>>, ev.on_modified, 0, 1, old_node, new_signal)
      s1 == [st EXCEPT !.nodes = p.nodes]
      s2 == subst_outputs(s1, 1, old_node, new_signal)
  IN  [st |-> [s2 EXCEPT !.nodes[old_node + 1].fanout = 0], modified |-> p.log]

----------------------------------------------------------------------------
(* Indexed access to inputs, outputs and registers.  ok is the value of    *)
(* the call's assertion, ret what the call returns when it holds.          *)

\* the result of a call whose assertion cond guards the read of xs[index]
checked_at(cond, xs, pos) ==
  [ok |-> cond, ret |-> IF cond THEN xs[pos + 1] ELSE 0]

ci_at(st, index) == checked_at(index < Len(st.inputs), st.inputs, index)
co_at(st, index) == checked_at(index < Len(st.outputs), st.outputs, index)
pi_at(st, index) == checked_at(index < st.num_pis, st.inputs, index)
po_at(st, index) == checked_at(index < st.num_pos, st.outputs, index)
ro_at(st, index) ==
  checked_at(index < Len(st.inputs) - st.num_pis, st.inputs, st.num_pis + index)
ri_at(st, index) ==
  checked_at(index < Len(st.outputs) - st.num_pos, st.outputs, st.num_pos + index)
latch_reset(st, index) == checked_at(index < Len(st.latches), st.latches, index)

AtKinds == {"ci_at", "co_at", "pi_at", "po_at", "ro_at", "ri_at", "latch_reset"}

index_at(kind, st, index) ==
  CASE kind = "ci_at" -> ci_at(st, index)
    [] kind = "co_at" -> co_at(st, index)
    [] kind = "pi_at" -> pi_at(st, index)
    [] kind = "po_at" -> po_at(st, index)
    [] kind = "ro_at" -> ro_at(st, index)
    [] kind = "ri_at" -> ri_at(st, index)
    [] kind = "latch_reset" -> latch_reset(st, index)

\* cover_network::is_pi: n is among the first num_pis entries of inputs
is_pi(st, n) == \E k \in 1 .. st.num_pis : st.inputs[k] = n

\* cover_network::is_ro: n is among the entries of inputs after the first num_pis
is_ro(st, n) == \E k \in (st.num_pis + 1) .. Len(st.inputs) : st.inputs[k] = n

\* a faulty variant of clone_node: the child list is not checked
clone_node_unchecked(st, ev, other, source, children) ==
  LET cb == other.covers[other.nodes[source + 1].cover + 1]
      r  == create_cover_node(st, ev, children, cb)
  IN  [ok |-> TRUE, st |-> r.st, ret |-> r.ret, added |-> r.added]

\* cover_network::clone_node: ok is the value of its assertion
clone_node(st, ev, other, source, children) ==
  IF children = <<>>
  THEN [ok |-> FALSE, st |-> st, ret |-> 0, added |-> <<>>]
  ELSE LET cb == other.covers[other.nodes[source + 1].cover + 1]
           r  == create_cover_node(st, ev, children, cb)
       IN  [ok |-> TRUE, st |-> r.st, ret |-> r.ret, added |-> r.added]

----------------------------------------------------------------------------
(* Custom node values and visited flags.  The value slot data[0].h2 is     *)
(* modelled with ValueBits bits (32 in the code): it wraps around on its   *)
(* own, without carry into the fanout slot beside it.                      *)

\* width of the value slot
ValueBits == 2

\* cover_network::clear_values
clear_values(st) ==
  [st EXCEPT !.nodes = [i \in 1 .. Len(st.nodes) |-> [st.nodes[i] EXCEPT !.value = 0]]]

\* cover_network::value
value(st, n) == st.nodes[n + 1].value

\* cover_network::set_value
set_value(st, n, v) == [st EXCEPT !.nodes[n + 1].value = v]

\* cover_network::incr_value: returns the value before the increment
incr_value(st, n) ==
  [st  |-> [st EXCEPT !.nodes[n + 1].value = (@ + 1) % Pow2(ValueBits)],
   ret |-> st.nodes[n + 1].value]

\* cover_network::decr_value: returns the value after the decrement
decr_value(st, n) ==
  LET v == (st.nodes[n + 1].value + Pow2(ValueBits) - 1) % Pow2(ValueBits)
  IN  [st |-> [st EXCEPT !.nodes[n + 1].value = v], ret |-> v]

\* cover_network::clear_visited
clear_visited(st) ==
  [st EXCEPT !.nodes = [i \in 1 .. Len(st.nodes) |-> [st.nodes[i] EXCEPT !.visited = 0]]]

\* cover_network::visited
visited(st, n) == st.nodes[n + 1].visited

\* a faulty variant of set_visited: the mark is written to the value slot
set_visited_in_value(st, n, v) == [st EXCEPT !.nodes[n + 1].value = v]

\* cover_network::set_visited
set_visited(st, n, v) == [st EXCEPT !.nodes[n + 1].visited = v]

\* cover_network::trav_id
trav_id(st) == st.trav_id

\* cover_network::incr_trav_id
incr_trav_id(st) == [st EXCEPT !.trav_id = @ + 1]

----------------------------------------------------------------------------
(* Node iterators: the sequence of nodes the visitor is called with.       *)

\* the elements of xs that are not combinational inputs, in the order of xs
RECURSIVE skip_cis(_, _)
skip_cis(st, xs) ==
  IF xs = <<>> THEN <<>>
  ELSE IF \E k \in 1 .. Len(st.inputs) : st.inputs[k] = Head(xs)
       THEN skip_cis(st, Tail(xs))
       ELSE <<Head(xs)>> \o skip_cis(st, Tail(xs))

\* a faulty variant of foreach_gate: the range starts at node 0
foreach_gate_from_0(st) ==
  skip_cis(st, [i \in 1 .. size(st) |-> i - 1])

\* cover_network::foreach_gate: the range 2 .. size() - 1 without the nodes
\* for which is_ci holds
foreach_gate(st) ==
  skip_cis(st, [i \in 1 .. (size(st) - 2) |-> i + 1])

\* cover_network::foreach_fanin
foreach_fanin(st, n) ==
  IF n = 0 \/ (\E k \in 1 .. Len(st.inputs) : st.inputs[k] = n)
  THEN <<>>
  ELSE st.nodes[n + 1].children

----------------------------------------------------------------------------
(* The network as a state machine: one action per call.                    *)

\* no compute call has been made since the last change of the network
NoSim == [mode |-> "none", n |-> 0, xs |-> <<>>, ret |-> <<>>]

\* no create_cover_node( children, function ) call is in progress
NoFrame == [active |-> FALSE, children |-> <<>>, function |-> <<>>,
            is_sop |-> FALSE, mask |-> 0, i |-> 0, first |-> <<>>, iters |-> 0]

\* the record kept in last; cover is the cover argument of the call, if any
NoCover == [first |-> <<>>, second |-> FALSE]

Call(op, kind, args, ret) ==
  [op |-> op, kind |-> kind, args |-> args, cover |-> NoCover, ret |-> ret]

CallWithCover(op, args, cover, ret) ==
  [op |-> op, kind |-> "", args |-> args, cover |-> cover, ret |-> ret]

\* cover_network(): a fresh storage, _init, no listener
Init ==
  /\ storage = _init(empty_storage)
  /\ events = [on_add |-> <<>>, on_modified |-> <<>>]
  /\ last = Call("cover_network", "", <<>>, 0)
  /\ added = <<>>
  /\ modified = <<>>
  /\ nsubst = 0
  /\ sim = NoSim
  /\ frame = NoFrame

CreatePi ==
  /\ num_cis(storage) < MaxInputs
  /\ LET r == create_pi(storage)
     IN  /\ storage' = r.st
         /\ last' = Call("create_pi", "", <<>>, r.ret)
  /\ added' = <<>> /\ modified' = <<>>
  /\ UNCHANGED <<events, nsubst, sim, frame>>

CreateRo ==
  /\ num_cis(storage) < MaxInputs
  /\ LET r == create_ro(storage)
     IN  /\ storage' = r.st
         /\ last' = Call("create_ro", "", <<>>, r.ret)
  /\ added' = <<>> /\ modified' = <<>>
  /\ UNCHANGED <<events, nsubst, sim, frame>>

CreatePo ==
  /\ num_cos(storage) < MaxOutputs
  /\ \E f \in NodeIds(storage) :
       LET r == create_po(storage, f)
       IN  /\ storage' = r.st
           /\ last' = Call("create_po", "", <<f>>, r.ret)
  /\ added' = <<>> /\ modified' = <<>>
  /\ UNCHANGED <<events, nsubst, sim, frame>>

CreateRi ==
  /\ num_cos(storage) < MaxOutputs
  /\ \E f \in NodeIds(storage), reset \in {0, 1} :
       LET r == create_ri(storage, f, reset)
       IN  /\ storage' = r.st
           /\ last' = Call("create_ri", "", <<f, reset>>, r.ret)
  /\ added' = <<>> /\ modified' = <<>>
  /\ UNCHANGED <<events, nsubst, sim, frame>>

CreateGate ==
  /\ num_gates(storage) < MaxGates
  /\ Len(storage.covers) < 2 + MaxInputs + MaxGates
  /\ \E kind \in GateKinds :
       \E xs \in [1 .. GateArity(kind) -> NodeIds(storage)] :
         LET r == create_gate(kind, storage, events, xs)
         IN  /\ storage' = r.st
             /\ last' = Call("create_gate", kind, xs, r.ret)
             /\ added' = r.added
  /\ modified' = <<>>
  /\ UNCHANGED <<events, nsubst, sim, frame>>

SubstituteNode ==
  /\ nsubst < MaxSubst
  /\ \E old_node \in NodeIds(storage), new_signal \in NodeIds(storage) :
       LET r == substitute_node(storage, events, old_node, new_signal)
       IN  /\ storage' = r.st
           /\ last' = Call("substitute_node", "", <<old_node, new_signal>>, 0)
           /\ modified' = r.modified
  /\ added' = <<>>
  /\ nsubst' = nsubst + 1
  /\ UNCHANGED <<events, sim, frame>>

\* events().register_add_event( fn ): fn is appended to on_add
RegisterAddEvent ==
  /\ Len(events.on_add) < MaxAddListeners
  /\ events' = [events EXCEPT !.on_add = Append(@, Len(@) + 1)]
  /\ last' = Call("register_add_event", "", <<>>, 0)
  /\ added' = <<>> /\ modified' = <<>>
  /\ UNCHANGED <<storage, nsubst, sim, frame>>

\* events().register_modified_event( fn ): fn is appended to on_modified
RegisterModifiedEvent ==
  /\ Len(events.on_modified) < MaxListeners
  /\ events' = [events EXCEPT !.on_modified = Append(@, Len(@) + 1)]
  /\ last' = Call("register_modified_event", "", <<>>, 0)
  /\ added' = <<>> /\ modified' = <<>>
  /\ UNCHANGED <<storage, nsubst, sim, frame>>

Next ==
  \/ CreatePi
  \/ CreateRo
  \/ CreatePo
  \/ CreateRi
  \/ CreateGate
  \/ SubstituteNode
  \/ RegisterModifiedEvent

Spec == Init /\ [][Next]_vars

----------------------------------------------------------------------------
(* Claims checked under Spec.                                              *)

\* all references to node n: its occurrences in the child lists of all nodes
\* plus the entries of the output list equal to n
RECURSIVE ChildRefs(_, _)
ChildRefs(nodes, n) ==
  IF nodes = <<>> THEN 0
  ELSE Count(Head(nodes).children, n) + ChildRefs(Tail(nodes), n)

Refs(st, n) == ChildRefs(st.nodes, n) + Count(st.outputs, n)

IsSubstStep == nsubst' = nsubst + 1

\* C2 as stated: after substitute_node(old, new), for any old and new in the
\* arena, no child list and no output entry contains old and fanout(old) = 0.
C2_Original ==
  last.op = "substitute_node" =>
    /\ Refs(storage, last.args[1]) = 0
    /\ fanout_size(storage, last.args[1]) = 0

\* C2 amended: the same for any two distinct nodes old # new.
C2_SubstituteRemovesOld ==
  (last.op = "substitute_node" /\ last.args[1] # last.args[2]) =>
    /\ \A i \in NodeIds(storage) :
         Count(storage.nodes[i + 1].children, last.args[1]) = 0
    /\ Count(storage.outputs, last.args[1]) = 0
    /\ fanout_size(storage, last.args[1]) = 0

\* C2 witness: a substitution of a node that was referenced both as a child
\* and as an output has happened
C2_Witness ==
  /\ last.op = "substitute_node"
  /\ last.args[1] # last.args[2]
  /\ modified # <<>>
  /\ Count(storage.outputs, last.args[2]) > 0
  /\ fanout_size(storage, last.args[2]) >= 2

\* C3: in every reachable state fanout_size(n) is the number of references
\* to n in child lists and in the output list.
C3_Original ==
  \A n \in NodeIds(storage) : fanout_size(storage, n) = Refs(storage, n)

\* C8: during substitute_node(old, new) every subscribed on_modified
\* listener is called once for each node that has a child equal to old, with
\* that node's id and its child list as it was before the call changed it
\* (stated for old # new, where a rewritten child list differs from the
\* list before the call).
C8_Original ==
  [][(IsSubstStep /\ last'.args[1] # last'.args[2]) =>
       \A i \in NodeIds(storage) :
         Count(storage.nodes[i + 1].children, last'.args[1]) > 0 =>
           \A k \in 1 .. Len(events.on_modified) :
             LET calls == {c \in 1 .. Len(modified') :
                             /\ modified'[c].fn = events.on_modified[k]
                             /\ modified'[c].n = i}
             IN  /\ Cardinality(calls) = 1
                 /\ \A c \in calls :
                      modified'[c].old_children = storage.nodes[i + 1].children
    ]_vars

\* C9 as stated: after any sequence of create_pi, create_po, create_ro and
\* create_ri calls the register counts agree.
C9_Original ==
  /\ num_cis(storage) - num_pis(storage) = num_cos(storage) - num_pos(storage)
  /\ num_registers(storage).ret = num_cis(storage) - num_pis(storage)

\* C9 amended: num_latches() = num_cos() - num_pos() in every state, and
\* whenever the assertion of num_registers() holds its result equals
\* num_cis() - num_pis(), num_cos() - num_pos() and num_latches().
C9_RegistersWhenAsserted ==
  /\ num_latches(storage) = num_cos(storage) - num_pos(storage)
  /\ num_registers(storage).ok =>
       /\ num_registers(storage).ret = num_cis(storage) - num_pis(storage)
       /\ num_registers(storage).ret = num_cos(storage) - num_pos(storage)
       /\ num_registers(storage).ret = num_latches(storage)

\* C9 witness: one register output and one register input exist
C9_Witness ==
  /\ num_registers(storage).ok
  /\ num_registers(storage).ret = 1
  /\ num_latches(storage) = 1

\* C10: a builder call that appends node n with children c1..ck raises the
\* fanout of every node by the number of times it occurs among c1..ck (so
\* not at all for the other nodes), and n itself has fanout 0.
C10_FanoutOfChildren ==
  [][(last'.op = "create_gate" /\ size(storage') = size(storage) + 1) =>
       /\ \A n \in NodeIds(storage) :
            fanout_size(storage', n) = fanout_size(storage, n) + Count(last'.args, n)
       /\ fanout_size(storage', last'.ret) = 0
       /\ storage'.nodes[last'.ret + 1].children = last'.args
    ]_vars

\* C10 witness: a gate with a repeated child was appended and that child had
\* prior uses
C10_Witness ==
  /\ last.op = "create_gate"
  /\ \E n \in NodeIds(storage) :
       /\ Count(last.args, n) >= 2
       /\ fanout_size(storage, n) > Count(last.args, n)

\* the nodes some node of S has as a child
children_of(st, S) ==
  UNION {{st.nodes[n + 1].children[j] : j \in 1 .. Len(st.nodes[n + 1].children)} : n \in S}

\* the nodes reachable from S in at most k steps along child references
RECURSIVE descendants(_, _, _)
descendants(st, S, k) ==
  IF k = 0 THEN S ELSE descendants(st, S \cup children_of(st, S), k - 1)

\* C22: in every state reached by builder calls on existing nodes and by
\* substitute_node calls on existing nodes, no node is reachable from itself
\* along child references.
C22_Original ==
  \A n \in NodeIds(storage) :
    n \notin descendants(storage, children_of(storage, {n}), size(storage))

\* cover_network::node_cover: the cover-table entry node n refers to
node_cover(st, n) == st.covers[st.nodes[n + 1].cover + 1]

\* C11: in every reachable state the cover reference of every node
\* (constants, primary inputs and register outputs included) is an index
\* below the number of stored covers, so node_cover(n) is defined.
C11_Original ==
  \A n \in NodeIds(storage) : storage.nodes[n + 1].cover < Len(storage.covers)

\* C14: in every reachable state get_constant(false) = 0 and
\* get_constant(true) = 1, no call that creates an input or a gate returns
\* id 0 or 1, and nodes 0 and 1 have the cover made of the one cube that
\* matches every pattern, with polarity false and true respectively.
C14_Constants ==
  /\ get_constant(FALSE) = 0
  /\ get_constant(TRUE) = 1
  /\ last.op \in {"create_pi", "create_ro", "create_gate"} =>
       /\ last.ret \notin {0, 1}
       /\ last.ret = size(storage) - 1
  /\ node_cover(storage, 0) = [first |-> <<cube_dc>>, second |-> FALSE]
  /\ node_cover(storage, 1) = [first |-> <<cube_dc>>, second |-> TRUE]
  /\ \A n \in {0, 1} :
       \A k \in 1 .. Len(node_cover(storage, n).first) :
         \A bits \in 0 .. 3 :
           cube_matches(node_cover(storage, n).first[k], [bits |-> bits, mask |-> 3])

\* C14 witness: constant 1 was a child of a gate and has been replaced by
\* constant 0
C14_Witness ==
  /\ last.op = "substitute_node"
  /\ last.args = <<1, 0>>
  /\ \E n \in NodeIds(storage) :
       /\ Len(storage.nodes[n + 1].children) > 0
       /\ Count(storage.nodes[n + 1].children, 0) > 0

\* C18: substitute_node(old, new) changes no child reference and no output
\* entry other than those equal to old, and no fanout other than those of
\* old and new; size(), the cover table, the hash table, every node's cover
\* reference, value and visited slot, trav_id, the input list, the latch
\* resets, num_pis and num_pos stay as they are, and old is still a node id.
C18_SubstituteFrame ==
  [][IsSubstStep =>
       LET old_node   == last'.args[1]
           new_signal == last'.args[2]
       IN  /\ size(storage') = size(storage)
           /\ storage'.covers = storage.covers
           /\ storage'.hash = storage.hash
           /\ storage'.trav_id = storage.trav_id
           /\ storage'.inputs = storage.inputs
           /\ storage'.latches = storage.latches
           /\ storage'.num_pis = storage.num_pis
           /\ storage'.num_pos = storage.num_pos
           /\ Len(storage'.outputs) = Len(storage.outputs)
           /\ \A k \in 1 .. Len(storage.outputs) :
                storage'.outputs[k] # storage.outputs[k] => storage.outputs[k] = old_node
           /\ \A n \in NodeIds(storage) :
                /\ storage'.nodes[n + 1].cover = storage.nodes[n + 1].cover
                /\ storage'.nodes[n + 1].value = storage.nodes[n + 1].value
                /\ storage'.nodes[n + 1].visited = storage.nodes[n + 1].visited
                /\ Len(storage'.nodes[n + 1].children) = Len(storage.nodes[n + 1].children)
                /\ \A j \in 1 .. Len(storage.nodes[n + 1].children) :
                     storage'.nodes[n + 1].children[j] # storage.nodes[n + 1].children[j] =>
                       storage.nodes[n + 1].children[j] = old_node
                /\ n \notin {old_node, new_signal} =>
                     fanout_size(storage', n) = fanout_size(storage, n)
           /\ old_node \in NodeIds(storage')
    ]_vars

\* C18 witness: a gate that had children and was itself an output has been
\* replaced by another node
C18_Witness ==
  /\ last.op = "substitute_node"
  /\ last.args[1] # last.args[2]
  /\ Len(storage.nodes[last.args[1] + 1].children) > 0
  /\ fanout_size(storage, last.args[1]) = 0
  /\ Count(storage.outputs, last.args[2]) > 0

----------------------------------------------------------------------------
(* The gate builders and single-assignment compute: a network with NumPis  *)
(* primary inputs, one builder call, the same call repeated, and compute   *)
(* on the node the builder returned.                                       *)

\* number of primary inputs created before the builders are called
NumPis == 3
\* cap on the number of builder calls in one run
MaxCalls == 2

RECURSIVE with_pis(_, _)
with_pis(st, k) == IF k = 0 THEN st ELSE with_pis(create_pi(st).st, k - 1)

\* builder calls made so far: every call inserts one cover
gate_calls(st) == Len(st.covers) - 2 - num_pis(st)

InitGates ==
  /\ storage = with_pis(_init(empty_storage), NumPis)
  /\ events = [on_add |-> <<>>, on_modified |-> <<>>]
  /\ last = Call("create_pi", "", <<>>, size(storage) - 1)
  /\ added = <<>>
  /\ modified = <<>>
  /\ nsubst = 0
  /\ sim = NoSim
  /\ frame = NoFrame

\* the first builder call: any builder, any operands
GateFirst ==
  /\ gate_calls(storage) = 0
  /\ \E kind \in GateKinds :
       \E xs \in [1 .. GateArity(kind) -> NodeIds(storage)] :
         LET r == create_gate(kind, storage, events, xs)
         IN  /\ storage' = r.st
             /\ last' = Call("create_gate", kind, xs, r.ret)
             /\ added' = r.added
  /\ modified' = <<>>
  /\ sim' = NoSim
  /\ UNCHANGED <<events, nsubst, frame>>

\* the same builder called again with the same operands
GateAgain ==
  /\ last.op = "create_gate"
  /\ gate_calls(storage) < MaxCalls
  /\ LET r == create_gate(last.kind, storage, events, last.args)
     IN  /\ storage' = r.st
         /\ last' = Call("create_gate", last.kind, last.args, r.ret)
         /\ added' = r.added
  /\ modified' = <<>>
  /\ sim' = NoSim
  /\ UNCHANGED <<events, nsubst, frame>>

\* compute on the node the last builder call returned, any input booleans
\* (one query per network state: a query leaves the network as it is)
ComputeGate ==
  /\ last.op = "create_gate"
  /\ sim = NoSim
  /\ \E xs \in [1 .. GateArity(last.kind) -> BOOLEAN] :
       sim' = [mode |-> "bool", n |-> last.ret, xs |-> xs,
               ret |-> compute(storage, last.ret, xs)]
  /\ UNCHANGED <<storage, events, last, added, modified, nsubst, frame>>

NextGates ==
  \/ GateFirst
  \/ GateAgain
  \/ ComputeGate

SpecGates == InitGates /\ [][NextGates]_vars

\* the Boolean function each builder is named after
GateFunction(kind, x) ==
  CASE kind = "not"  -> ~x[1]
    [] kind = "and"  -> x[1] /\ x[2]
    [] kind = "nand" -> ~(x[1] /\ x[2])
    [] kind = "or"   -> x[1] \/ x[2]
    [] kind = "nor"  -> ~(x[1] \/ x[2])
    [] kind = "lt"   -> ~x[1] /\ x[2]
    [] kind = "le"   -> ~x[1] \/ x[2]
    [] kind = "gt"   -> x[1] /\ ~x[2]
    [] kind = "ge"   -> x[1] \/ ~x[2]
    [] kind = "xor"  -> x[1] # x[2]
    [] kind = "xnor" -> x[1] = x[2]
    [] kind = "maj"  -> (x[1] /\ x[2]) \/ (x[1] /\ x[3]) \/ (x[2] /\ x[3])
    [] kind = "ite"  -> IF x[1] THEN x[2] ELSE x[3]
    [] kind = "xor3" -> (x[1] # x[2]) # x[3]

\* C1: a builder called twice with identical operands returns the same node
\* id both times and the second call appends no node.
C1_Original ==
  [][(/\ last.op = "create_gate"
      /\ last'.op = "create_gate"
      /\ last'.kind = last.kind
      /\ last'.args = last.args
      /\ storage' # storage) =>
       (last'.ret = last.ret /\ size(storage') = size(storage))
    ]_vars

\* C4: the node a builder returns computes, on every input assignment given
\* in operand order, the Boolean function the builder is named after.
C4_GateTruthTables ==
  sim.mode = "bool" => sim.ret = GateFunction(last.kind, sim.xs)

\* C4 witness: an asymmetric gate on distinct inputs was evaluated on an
\* assignment that tells its operands apart
C4_Witness ==
  /\ sim.mode = "bool"
  /\ last.kind = "lt"
  /\ last.args = <<2, 3>>
  /\ sim.xs = <<FALSE, TRUE>>
  /\ sim.ret = TRUE

----------------------------------------------------------------------------
(* create_cover_node with an explicit cover, and the two compute overloads *)
(* on the nodes it builds.                                                 *)

\* cap on the number of children of a node built from an explicit cover
MaxFanin == 2
\* cap on the number of cubes of an explicit cover
MaxCubes == 2
\* width of the simulation vectors
SimBits == 2

\* the cubes over k inputs: any pattern and any care mask of k bits
Cubes(k) == [bits : 0 .. (Pow2(k) - 1), mask : 0 .. (Pow2(k) - 1)]

\* the cube lists of at most MaxCubes cubes over k inputs
CubeLists(k) == UNION {[1 .. len -> Cubes(k)] : len \in 0 .. MaxCubes}

\* the first k primary inputs, as a child list
FirstPis(st, k) == [p \in 1 .. k |-> st.inputs[p]]

\* the simulation vectors of SimBits bits
Vectors == [1 .. SimBits -> BOOLEAN]

\* create_cover_node( children, (cubes, polarity) ) on the first k inputs
CreateCoverNode ==
  /\ gate_calls(storage) = 0
  /\ \E k \in 0 .. MaxFanin :
       \E cubes \in CubeLists(k), pol \in BOOLEAN :
         LET children == FirstPis(storage, k)
             cover    == [first |-> cubes, second |-> pol]
             r        == create_cover_node(storage, events, children, cover)
         IN  /\ storage' = r.st
             /\ last' = CallWithCover("create_cover_node", children, cover, r.ret)
             /\ added' = r.added
  /\ modified' = <<>>
  /\ sim' = NoSim
  /\ UNCHANGED <<events, nsubst, frame>>

\* y = create_and( n1, c ) on the node n1 just built and a primary input c
CreateAndOnCover ==
  /\ last.op = "create_cover_node"
  /\ is_function(storage, last.ret)
  /\ gate_calls(storage) = 1
  /\ \E k \in 1 .. num_pis(storage) :
       LET xs == <<last.ret, storage.inputs[k]>>
           r  == create_and(storage, events, xs[1], xs[2])
       IN  /\ storage' = r.st
           /\ last' = Call("create_gate", "and", xs, r.ret)
           /\ added' = r.added
  /\ modified' = <<>>
  /\ sim' = NoSim
  /\ UNCHANGED <<events, nsubst, frame>>

\* compute( n, begin, end ) on booleans, n any gate
ComputeBool ==
  /\ sim = NoSim
  /\ \E n \in NodeIds(storage) :
       /\ is_function(storage, n)
       /\ \E xs \in [1 .. Len(storage.nodes[n + 1].children) -> BOOLEAN] :
            sim' = [mode |-> "bool", n |-> n, xs |-> xs,
                    ret |-> compute(storage, n, xs)]
  /\ UNCHANGED <<storage, events, last, added, modified, nsubst, frame>>

\* compute( n, begin, end ) on simulation vectors, n any gate
ComputeTT ==
  /\ sim = NoSim
  /\ \E n \in NodeIds(storage) :
       /\ is_function(storage, n)
       /\ \E tts \in [1 .. Len(storage.nodes[n + 1].children) -> Vectors] :
            sim' = [mode |-> "tt", n |-> n, xs |-> tts,
                    ret |-> compute_tt(storage, n, tts)]
  /\ UNCHANGED <<storage, events, last, added, modified, nsubst, frame>>

NextCover ==
  \/ CreateCoverNode
  \/ CreateAndOnCover
  \/ ComputeBool

SpecCover == InitGates /\ [][NextCover]_vars

NextSim ==
  \/ CreateCoverNode
  \/ ComputeBool
  \/ ComputeTT

SpecSim == InitGates /\ [][NextSim]_vars

\* bit i of every vector of tts, in fanin order
BitsAt(tts, i) == [j \in 1 .. Len(tts) |-> tts[j][i + 1]]

\* C5: bit i of the result of vectorized compute is single-assignment
\* compute on bit i of the vectors taken in fanin order, for every i.
C5_Original ==
  sim.mode = "tt" =>
    \A i \in 0 .. (SimBits - 1) :
      sim.ret[i + 1] = compute(storage, sim.n, BitsAt(sim.xs, i))

\* the value of input p (1-based, in operand order) of k inputs sits at
\* position k - p of the pattern: the first input is the most significant
InputBit(xs, j) == IF xs[Len(xs) - j] THEN 1 ELSE 0

\* a cube matches the inputs xs iff it agrees with them on each of its own
\* care bits
Matches(cb, xs) ==
  \A j \in 0 .. (Len(xs) - 1) :
    Bit(cb.mask, j) = 1 => Bit(cb.bits, j) = InputBit(xs, j)

\* C7: on a node built by create_cover_node( children, (cubes, polarity) )
\* compute returns polarity if some cube matches the inputs on its own care
\* bits and !polarity otherwise; and with n1 built on {a, b} from the cover
\* (["11"], false) and y = create_and( n1, c ), evaluating n1 then y gives
\* NAND(a, b) AND c, so 0 for a=b=c=1 and 1 for a=0, b=c=1.
C7_CoverEvaluation ==
  /\ (/\ sim.mode = "bool"
      /\ last.op = "create_cover_node"
      /\ Len(last.args) >= 1) =>
       sim.ret = (IF \E k \in 1 .. Len(last.cover.first) :
                       Matches(last.cover.first[k], sim.xs)
                  THEN last.cover.second
                  ELSE ~last.cover.second)
  /\ (/\ last.op = "create_gate"
      /\ storage.nodes[last.args[1] + 1].children = <<2, 3>>
      /\ last.args[2] = 4
      /\ storage.covers[storage.nodes[last.args[1] + 1].cover + 1]
           = [first |-> <<cube_from_string(<<"1", "1">>)>>, second |-> FALSE]) =>
       \A a \in BOOLEAN, b \in BOOLEAN, c \in BOOLEAN :
         LET v1 == compute(storage, last.args[1], <<a, b>>)
         IN  compute(storage, last.ret, <<v1, c>>) = (~(a /\ b) /\ c)

\* C7 witness: the cover (["11"], false) on {a, b} with create_and on top,
\* and y evaluated on n1 = 1, c = 1
C7_Witness ==
  /\ last.op = "create_gate"
  /\ storage.nodes[last.args[1] + 1].children = <<2, 3>>
  /\ last.args[2] = 4
  /\ storage.covers[storage.nodes[last.args[1] + 1].cover + 1]
       = [first |-> <<cube_from_string(<<"1", "1">>)>>, second |-> FALSE]
  /\ sim.mode = "bool"
  /\ sim.n = last.ret
  /\ sim.xs = <<TRUE, TRUE>>
  /\ sim.ret = TRUE

----------------------------------------------------------------------------
(* create_cover_node( children, function ) with a truth table, one step    *)
(* per loop iteration.  uint32_t is modelled with UintBits bits; the       *)
(* largest fanin max_fanin_size is the width of uint32_t in the code (both *)
(* are 32) and so it is UintBits here.                                     *)

\* width of uint32_t in the model
UintBits == 3
\* static constexpr auto max_fanin_size
max_fanin_size == UintBits
\* number of cubes a cube list can hold before its allocation fails
MaxAlloc == 9

BitOr(a, b) == a + b - BitAnd(a, b)

\* kitty::count_ones / kitty::count_zeros of a truth table held as a
\* sequence of booleans, bit i at function[i + 1]
count_ones(function) == Cardinality({p \in 1 .. Len(function) : function[p]})
count_zeros(function) == Cardinality({p \in 1 .. Len(function) : ~function[p]})

\* kitty::is_const0
is_const0(function) == count_ones(function) = 0

\* "uint32_t mask = 1u; for ( i = 1; i < children.size(); ++i ) mask |= mask << 1"
RECURSIVE tt_mask(_, _, _)
tt_mask(mask, i, k) ==
  IF i >= k THEN mask
  ELSE tt_mask(BitOr(mask, (2 * mask) % Pow2(UintBits)), i + 1, k)

\* the loop condition "i < pow( 2, children.size() )", i a uint32_t
tt_loop_cond(f) == f.i < Pow2(Len(f.children))

\* a faulty variant of tt_loop_body: a cube is added for every input combination
tt_loop_body_all(f) ==
  Append(f.first, [bits |-> f.i, mask |-> f.mask])

\* the loop body: a cube for input combination i if its output is is_sop
tt_loop_body(f) ==
  IF f.function[f.i + 1] = f.is_sop
  THEN Append(f.first, [bits |-> f.i, mask |-> f.mask])
  ELSE f.first

\* the truth tables over k variables
Functions(k) == [1 .. Pow2(k) -> BOOLEAN]

\* the call with no children: the constant is returned at once
TTConstant ==
  /\ ~frame.active
  /\ last.op # "bad_alloc"
  /\ gate_calls(storage) = 0
  /\ \E function \in Functions(0) :
       /\ last' = Call("create_cover_node_tt", "", <<>>,
                       get_constant(~is_const0(function)))
       /\ frame' = [NoFrame EXCEPT !.function = function]
  /\ added' = <<>> /\ modified' = <<>>
  /\ sim' = NoSim
  /\ UNCHANGED <<storage, events, nsubst>>

\* the call with k >= 1 children, up to the entry of the loop
TTBegin ==
  /\ ~frame.active
  /\ last.op # "bad_alloc"
  /\ gate_calls(storage) = 0
  /\ \E k \in 1 .. max_fanin_size :
       \E function \in Functions(k) :
         frame' = [active   |-> TRUE,
                   children |-> FirstPis(storage, k),
                   function |-> function,
                   is_sop   |-> count_ones(function) <= count_zeros(function),
                   mask     |-> tt_mask(1, 1, k),
                   i        |-> 0,
                   first    |-> <<>>,
                   iters    |-> 0]
  /\ sim' = NoSim
  /\ UNCHANGED <<storage, events, last, added, modified, nsubst>>

\* one iteration of the loop; ++i wraps at the width of uint32_t.  iters
\* counts the iterations and stops counting one past 2^k.
TTStep ==
  /\ frame.active
  /\ tt_loop_cond(frame)
  /\ Len(tt_loop_body(frame)) <= MaxAlloc
  /\ frame' = [frame EXCEPT
                 !.first = tt_loop_body(frame),
                 !.i     = (@ + 1) % Pow2(UintBits),
                 !.iters = IF @ > Pow2(Len(frame.children)) THEN @ ELSE @ + 1]
  /\ UNCHANGED <<storage, events, last, added, modified, nsubst, sim>>

\* push_back when the cube list cannot grow: std::bad_alloc leaves the call
\* and, not being caught, ends the run
TTBadAlloc ==
  /\ frame.active
  /\ tt_loop_cond(frame)
  /\ Len(tt_loop_body(frame)) > MaxAlloc
  /\ frame' = [frame EXCEPT !.active = FALSE]
  /\ last' = Call("bad_alloc", "", frame.children, 0)
  /\ added' = <<>> /\ modified' = <<>>
  /\ UNCHANGED <<storage, events, nsubst, sim>>

\* the loop is left: _create_cover_node( children, new_cover )
TTEnd ==
  /\ frame.active
  /\ ~tt_loop_cond(frame)
  /\ LET cover == [first |-> frame.first, second |-> frame.is_sop]
         r     == _create_cover_node(storage, events, frame.children, cover)
     IN  /\ storage' = r.st
         /\ last' = CallWithCover("create_cover_node_tt", frame.children, cover, r.ret)
         /\ added' = r.added
  /\ frame' = [frame EXCEPT !.active = FALSE]
  /\ modified' = <<>>
  /\ UNCHANGED <<events, nsubst, sim>>

NextTT ==
  \/ TTConstant
  \/ TTBegin
  \/ TTStep
  \/ TTBadAlloc
  \/ TTEnd
  \/ ComputeBool

SpecTT == InitGates /\ [][NextTT]_vars

\* the node the call returned reproduces the truth table: compute on the
\* inputs xs gives the bit of function for the combination xs
TTRoundTrip ==
  (/\ sim.mode = "bool"
   /\ last.op = "create_cover_node_tt"
   /\ sim.n = last.ret) =>
    sim.ret = frame.function[fold_index(0, sim.xs) + 1]

\* the loop runs once per input combination and is then left
TTLoopTerminates ==
  /\ frame.active => frame.iters <= Pow2(Len(frame.children))
  /\ last.op # "bad_alloc"

\* C6: for every fanin width k from 1 to max_fanin_size and every truth
\* table over k variables, create_cover_node( children, tt ) terminates and
\* returns a node on which compute reproduces tt.
C6_Original == TTLoopTerminates /\ TTRoundTrip

\* the same for the widths below max_fanin_size
TTBelowMax ==
  Len(frame.children) < max_fanin_size => C6_Original

\* the input combinations on which the truth table function gives value v
tt_points(function, v) == {i \in 0 .. (Len(function) - 1) : function[i + 1] = v}

\* C23: create_cover_node( children, tt ) with k >= 1 children stores a
\* cover whose polarity is true iff tt has at most as many ones as zeros,
\* and whose cubes are, each once and with all k care bits set, the input
\* combinations on which tt equals that polarity and nothing else; so it
\* stores min(#ones, #zeros) cubes.
C23_CoverFromTruthTable ==
  (last.op = "create_cover_node_tt" /\ Len(last.args) >= 1) =>
    LET k      == Len(last.args)
        tt     == frame.function
        ones   == Cardinality(tt_points(tt, TRUE))
        zeros  == Cardinality(tt_points(tt, FALSE))
        stored == node_cover(storage, last.ret)
    IN  /\ storage.nodes[last.ret + 1].children = last.args
        /\ stored.second = (ones <= zeros)
        /\ {stored.first[c] : c \in 1 .. Len(stored.first)}
             = {[bits |-> i, mask |-> Pow2(k) - 1] : i \in tt_points(tt, stored.second)}
        /\ Len(stored.first) = (IF ones <= zeros THEN ones ELSE zeros)

\* C23 witness: a node was built from a table over two inputs with two ones
\* and two zeros, and its cover lists the two ones
C23_Witness ==
  /\ last.op = "create_cover_node_tt"
  /\ Len(last.args) = 2
  /\ Cardinality(tt_points(frame.function, TRUE)) = 2
  /\ node_cover(storage, last.ret).second
  /\ Len(node_cover(storage, last.ret).first) = 2

----------------------------------------------------------------------------
(* Inputs, outputs and registers created in any order on a fresh network,  *)
(* the indexed accessors, and clone_node.                                  *)

\* cap on the number of create_pi and create_ro calls together
MaxIn == 2
\* cap on the number of create_po and create_ri calls together
MaxOut == 2
\* cap on the number of nodes clone_node appends
MaxClones == 1

IoCreatePi ==
  /\ num_cis(storage) < MaxIn
  /\ LET r == create_pi(storage)
     IN  /\ storage' = r.st
         /\ last' = Call("create_pi", "", <<>>, r.ret)
  /\ added' = <<>> /\ modified' = <<>> /\ sim' = NoSim
  /\ UNCHANGED <<events, nsubst, frame>>

IoCreateRo ==
  /\ num_cis(storage) < MaxIn
  /\ LET r == create_ro(storage)
     IN  /\ storage' = r.st
         /\ last' = Call("create_ro", "", <<>>, r.ret)
  /\ added' = <<>> /\ modified' = <<>> /\ sim' = NoSim
  /\ UNCHANGED <<events, nsubst, frame>>

IoCreatePo ==
  /\ num_cos(storage) < MaxOut
  /\ \E f \in NodeIds(storage) :
       LET r == create_po(storage, f)
       IN  /\ storage' = r.st
           /\ last' = Call("create_po", "", <<f>>, r.ret)
  /\ added' = <<>> /\ modified' = <<>> /\ sim' = NoSim
  /\ UNCHANGED <<events, nsubst, frame>>

IoCreateRi ==
  /\ num_cos(storage) < MaxOut
  /\ \E f \in NodeIds(storage), reset \in {0, 1} :
       LET r == create_ri(storage, f, reset)
       IN  /\ storage' = r.st
           /\ last' = Call("create_ri", "", <<f, reset>>, r.ret)
  /\ added' = <<>> /\ modified' = <<>> /\ sim' = NoSim
  /\ UNCHANGED <<events, nsubst, frame>>

\* one of ci_at .. ri_at, latch_reset with any index, in range or not
IndexAt ==
  /\ sim = NoSim
  /\ \E kind \in AtKinds, index \in 0 .. MaxIn :
       sim' = [mode |-> kind, n |-> index, xs |-> <<>>,
               ret |-> index_at(kind, storage, index)]
  /\ UNCHANGED <<storage, events, last, added, modified, nsubst, frame>>

\* clone_node( other, source, children ) with the network itself as other,
\* source any node whose cover is stored, children empty or one node
CloneNode ==
  /\ num_gates(storage) < MaxClones
  /\ \E source \in {n \in NodeIds(storage) :
                      storage.nodes[n + 1].cover < Len(storage.covers)} :
       \E children \in {<<>>} \cup {<<c>> : c \in NodeIds(storage)} :
         LET r == clone_node(storage, events, storage, source, children)
         IN  /\ storage' = r.st
             /\ last' = CallWithCover("clone_node", children,
                                      node_cover(storage, source),
                                      IF r.ok THEN r.ret ELSE -1)
             /\ added' = r.added
  /\ modified' = <<>> /\ sim' = NoSim
  /\ UNCHANGED <<events, nsubst, frame>>

NextIO ==
  \/ IoCreatePi
  \/ IoCreateRo
  \/ IoCreatePo
  \/ IoCreateRi
  \/ IndexAt
  \/ CloneNode

SpecIO == Init /\ [][NextIO]_vars

\* C15: after any interleaving of create_pi and create_ro calls, is_pi holds
\* exactly for the nodes create_pi returned and is_ro exactly for the nodes
\* create_ro returned: each call makes the node it returns a primary input
\* (a register output) and leaves is_pi and is_ro of every other node as
\* they were.
C15_Original ==
  [][/\ (last'.op = "create_pi" /\ storage' # storage) =>
          /\ is_pi(storage', last'.ret)
          /\ ~is_ro(storage', last'.ret)
          /\ \A n \in NodeIds(storage) :
               /\ is_pi(storage', n) = is_pi(storage, n)
               /\ is_ro(storage', n) = is_ro(storage, n)
     /\ (last'.op = "create_ro" /\ storage' # storage) =>
          /\ is_ro(storage', last'.ret)
          /\ ~is_pi(storage', last'.ret)
          /\ \A n \in NodeIds(storage) :
               /\ is_pi(storage', n) = is_pi(storage, n)
               /\ is_ro(storage', n) = is_ro(storage, n)
    ]_vars

\* C16: after any interleaving of create_po and create_ri calls, po_at(i) is
\* the signal of the i-th create_po call, ri_at(j) the signal and
\* latch_reset(j) the reset value of the j-th create_ri call, and there are
\* num_cos() - num_pos() reset values: each call is found at the last index
\* of its kind and leaves what the earlier indices return as it was.
C16_Original ==
  [][(last'.op \in {"create_po", "create_ri"} /\ storage' # storage) =>
       LET n_po == num_pos(storage)
           n_ri == num_cos(storage) - num_pos(storage)
       IN  /\ num_latches(storage') = num_cos(storage') - num_pos(storage')
           /\ \A i \in 0 .. (n_po - 1) : po_at(storage', i) = po_at(storage, i)
           /\ \A j \in 0 .. (n_ri - 1) :
                /\ ri_at(storage', j) = ri_at(storage, j)
                /\ latch_reset(storage', j) = latch_reset(storage, j)
           /\ last'.op = "create_po" =>
                po_at(storage', n_po) = [ok |-> TRUE, ret |-> last'.args[1]]
           /\ last'.op = "create_ri" =>
                /\ ri_at(storage', n_ri) = [ok |-> TRUE, ret |-> last'.args[1]]
                /\ latch_reset(storage', n_ri) = [ok |-> TRUE, ret |-> last'.args[2]]
    ]_vars

\* the number of elements the accessor kind indexes
at_count(kind, st) ==
  CASE kind = "ci_at" -> num_cis(st)
    [] kind = "co_at" -> num_cos(st)
    [] kind = "pi_at" -> num_pis(st)
    [] kind = "po_at" -> num_pos(st)
    [] kind = "ro_at" -> num_cis(st) - num_pis(st)
    [] kind = "ri_at" -> num_cos(st) - num_pos(st)
    [] kind = "latch_reset" -> num_latches(st)

\* C20: ci_at, co_at, pi_at, po_at, ro_at, ri_at and latch_reset with an
\* index not below the respective count, and clone_node with no children,
\* fail their assertion instead of returning a value, and the network is
\* then as it was before the call.
C20_PreconditionFailures ==
  [][/\ (sim'.mode \in AtKinds /\ sim'.n >= at_count(sim'.mode, storage)) =>
          /\ ~sim'.ret.ok
          /\ storage' = storage
     /\ (last'.op = "clone_node" /\ last'.args = <<>>) =>
          /\ last'.ret = -1
          /\ storage' = storage
          /\ added' = <<>>
    ]_vars

\* C20 witness: with one register input in the network, clone_node was
\* called with no children and then ri_at with index 1
C20_Witness ==
  /\ last.op = "clone_node"
  /\ last.args = <<>>
  /\ last.ret = -1
  /\ num_cos(storage) - num_pos(storage) = 1
  /\ sim.mode = "ri_at"
  /\ sim.n = 1
  /\ ~sim.ret.ok

----------------------------------------------------------------------------
(* The n-ary builders on a network with NumPis primary inputs.             *)

\* cap on the number of operands of an n-ary builder call
MaxNary == 3

\* create_nary_and / create_nary_or / create_nary_xor on any operand list
CreateNary ==
  /\ last.op # "create_nary"
  /\ \E kind \in NaryKinds :
       \E fs \in UNION {[1 .. len -> NodeIds(storage)] : len \in 0 .. MaxNary} :
         LET r == create_nary(kind, storage, events, fs)
         IN  /\ storage' = r.st
             /\ last' = Call("create_nary", kind, fs, r.ret)
             /\ added' = r.added
  /\ modified' = <<>>
  /\ sim' = NoSim
  /\ UNCHANGED <<events, nsubst, frame>>

NextNary == CreateNary

SpecNary == InitGates /\ [][NextNary]_vars

\* C13: create_nary_and([]) returns constant true, create_nary_or([]) and
\* create_nary_xor([]) return constant false, each of the three on [x]
\* returns x, and none of these calls creates a node.
C13_NaryIdentity ==
  [][(last'.op = "create_nary" /\ Len(last'.args) <= 1) =>
       /\ Len(last'.args) = 0 =>
            last'.ret = (IF last'.kind = "and" THEN 1 ELSE 0)
       /\ Len(last'.args) = 1 => last'.ret = last'.args[1]
       /\ size(storage') = size(storage)
       /\ storage' = storage
    ]_vars

\* C13 witness: create_nary_xor on one primary input returned that input,
\* and the network has no gate
C13_Witness ==
  /\ last.op = "create_nary"
  /\ last.kind = "xor"
  /\ Len(last.args) = 1
  /\ is_pi(storage, last.args[1])
  /\ last.ret = last.args[1]
  /\ num_gates(storage) = 0

----------------------------------------------------------------------------
(* Node creation with on_add listeners subscribed: a network with NumPis   *)
(* primary inputs, listeners registered at any moment, one builder or      *)
(* create_cover_node call, and create_cover_node called again on the same  *)
(* children.                                                               *)

\* create_cover_node again on the children of the last call, with a cover
\* supplied anew: the same cubes, and the same or the other polarity
CoverAgain ==
  /\ last.op = "create_cover_node"
  /\ Len(last.args) > 0
  /\ gate_calls(storage) < MaxCalls
  /\ \E pol \in BOOLEAN :
       LET cover == [first |-> last.cover.first, second |-> pol]
           r     == create_cover_node(storage, events, last.args, cover)
       IN  /\ storage' = r.st
           /\ last' = CallWithCover("create_cover_node", last.args, cover, r.ret)
           /\ added' = r.added
  /\ modified' = <<>>
  /\ sim' = NoSim
  /\ UNCHANGED <<events, nsubst, frame>>

NextAdd ==
  \/ RegisterAddEvent
  \/ GateFirst
  \/ CreateCoverNode
  \/ CoverAgain

SpecAdd == InitGates /\ [][NextAdd]_vars

\* C12: a create_cover_node call with a non-empty child list and a cover
\* whose cubes and polarity equal those of the cover of an existing node
\* with the same child list is not deduplicated against that node: it stores
\* its cover in a new cover-table slot of its own and returns another id.
C12_NoDedup ==
  [][(last'.op = "create_cover_node" /\ Len(last'.args) > 0) =>
       /\ Len(storage'.covers) = Len(storage.covers) + 1
       /\ storage'.covers[Len(storage'.covers)] = last'.cover
       /\ \A n \in NodeIds(storage) :
            (/\ storage.nodes[n + 1].children = last'.args
             /\ node_cover(storage, n) = last'.cover) =>
              /\ last'.ret # n
              /\ last'.ret \notin NodeIds(storage)
              /\ storage'.nodes[last'.ret + 1].cover = Len(storage.covers)
              /\ storage'.nodes[last'.ret + 1].cover # storage'.nodes[n + 1].cover
    ]_vars

\* C12 witness: two nodes with the same children and covers of equal
\* content exist, the second returned by the last call
C12_Witness ==
  /\ last.op = "create_cover_node"
  /\ Len(last.args) = 2
  /\ Len(last.cover.first) > 0
  /\ \E n \in NodeIds(storage) :
       /\ n # last.ret
       /\ storage.nodes[n + 1].children = last.args
       /\ node_cover(storage, n) = last.cover
       /\ node_cover(storage, last.ret) = last.cover

\* C17: a builder call that appends a node calls every subscribed on_add
\* listener once with the new node's id, in registration order, and each
\* listener finds the node in the arena with value 0 and the fanouts of its
\* children already raised by its references; a call that appends no node
\* calls no listener.
C17_AddListeners ==
  [][(last'.op \in {"create_gate", "create_cover_node"}) =>
       IF size(storage') > size(storage)
       THEN /\ Len(added') = Len(events.on_add)
            /\ \A k \in 1 .. Len(events.on_add) :
                 /\ added'[k].fn = events.on_add[k]
                 /\ added'[k].n = last'.ret
                 /\ size(added'[k].st) > last'.ret
                 /\ added'[k].st.nodes[last'.ret + 1].value = 0
                 /\ added'[k].st.nodes[last'.ret + 1].children = last'.args
                 /\ \A c \in NodeIds(storage) :
                      fanout_size(added'[k].st, c)
                        = fanout_size(storage, c) + Count(last'.args, c)
       ELSE added' = <<>>
    ]_vars

\* C17 witness: with two listeners subscribed, a gate with a repeated child
\* was appended and both were called
C17_Witness ==
  /\ last.op = "create_gate"
  /\ Len(events.on_add) = 2
  /\ Len(added) = 2
  /\ added[1].fn # added[2].fn
  /\ \E c \in NodeIds(storage) : Count(last.args, c) >= 2

\* C19: create_cover_node with an empty child list and a cover (cubes,
\* polarity) returns get_constant(polarity); it appends no node, inserts no
\* cover, changes no fanout and calls no on_add listener.
C19_EmptyChildren ==
  [][(last'.op = "create_cover_node" /\ last'.args = <<>>) =>
       /\ last'.ret = get_constant(last'.cover.second)
       /\ size(storage') = size(storage)
       /\ storage'.covers = storage.covers
       /\ \A n \in NodeIds(storage) : fanout_size(storage', n) = fanout_size(storage, n)
       /\ storage' = storage
       /\ added' = <<>>
    ]_vars

\* C19 witness: with a listener subscribed, create_cover_node was called with
\* no children and a cover of polarity true that has cubes, and returned 1
C19_Witness ==
  /\ last.op = "create_cover_node"
  /\ last.args = <<>>
  /\ Len(last.cover.first) > 0
  /\ last.cover.second
  /\ last.ret = 1
  /\ Len(events.on_add) >= 1

----------------------------------------------------------------------------
(* More than one handle on one storage: inputs and a cloned node are       *)
(* created through the first handle, and further handles are constructed   *)
(* over its storage.                                                       *)

\* cap on the growth of the cover table by further handles: each handle
\* inserts two covers
MaxHandles == 1

\* cover_network( storage ): the new handle shares the storage, has its own
\* listeners, and runs _init
NewHandle ==
  /\ num_gates(storage) <= MaxClones
  /\ Len(storage.covers) < 2 + MaxIn + MaxClones + 2 * MaxHandles
  /\ storage' = _init(storage)
  /\ last' = Call("cover_network", "storage", <<>>, 0)
  /\ added' = <<>> /\ modified' = <<>> /\ sim' = NoSim
  /\ UNCHANGED <<events, nsubst, frame>>

NextHandle ==
  \/ IoCreatePi
  \/ IoCreateRo
  \/ CloneNode
  \/ NewHandle

SpecHandle == Init /\ [][NextHandle]_vars

\* C21: constructing another handle over an initialized storage leaves
\* size(), num_gates(), the number of stored covers and the cover references
\* of nodes 0 and 1 as they were.
C21_Original ==
  [][(last'.op = "cover_network" /\ last'.kind = "storage") =>
       /\ size(storage') = size(storage)
       /\ num_gates(storage') = num_gates(storage)
       /\ Len(storage'.covers) = Len(storage.covers)
       /\ storage'.nodes[1].cover = storage.nodes[1].cover
       /\ storage'.nodes[2].cover = storage.nodes[2].cover
    ]_vars

\* C24: in every reachable state foreach_gate visits, in increasing index
\* order, exactly the nodes that are neither constant 0 or 1 nor in the
\* input list, it visits num_gates() nodes, and foreach_fanin on a constant,
\* a primary input or a register output visits nothing.
C24_GateIteration ==
  LET gates == foreach_gate(storage)
  IN  /\ \A i \in 1 .. Len(gates) : \A j \in 1 .. Len(gates) :
           i < j => gates[i] < gates[j]
      /\ {gates[i] : i \in 1 .. Len(gates)}
           = {n \in NodeIds(storage) :
                /\ n \notin {0, 1}
                /\ ~\E k \in 1 .. Len(storage.inputs) : storage.inputs[k] = n}
      /\ Len(gates) = num_gates(storage)
      /\ \A n \in NodeIds(storage) :
           (n \in {0, 1} \/ is_pi(storage, n) \/ is_ro(storage, n)) =>
             foreach_fanin(storage, n) = <<>>

\* C24 witness: two nodes that are neither constants nor inputs, with a
\* primary input and a register output between and after them
C24_Witness ==
  /\ Len(foreach_gate(storage)) = 2
  /\ \E n \in NodeIds(storage) :
       /\ is_ro(storage, n)
       /\ foreach_gate(storage)[1] < n
  /\ \E n \in NodeIds(storage) :
       /\ is_pi(storage, n)
       /\ n < foreach_gate(storage)[2]
  /\ \E n \in NodeIds(storage) : foreach_fanin(storage, n) # <<>>

----------------------------------------------------------------------------
(* The scratch fields: values, visited marks and the traversal id are set  *)
(* in any order on a fresh network, before and after one node is created.  *)

\* cap on the number of nodes created besides the constants
MaxScratchNodes == 1
\* largest mark given to set_visited
MaxVisited == 1
\* cap on the traversal id
MaxTrav == 1

ScratchCreatePi ==
  /\ size(storage) < 2 + MaxScratchNodes
  /\ LET r == create_pi(storage)
     IN  /\ storage' = r.st
         /\ last' = Call("create_pi", "", <<>>, r.ret)
  /\ added' = <<>> /\ modified' = <<>>
  /\ UNCHANGED <<events, nsubst, sim, frame>>

ScratchCreateRo ==
  /\ size(storage) < 2 + MaxScratchNodes
  /\ LET r == create_ro(storage)
     IN  /\ storage' = r.st
         /\ last' = Call("create_ro", "", <<>>, r.ret)
  /\ added' = <<>> /\ modified' = <<>>
  /\ UNCHANGED <<events, nsubst, sim, frame>>

ScratchCreateNot ==
  /\ size(storage) < 2 + MaxScratchNodes
  /\ \E a \in NodeIds(storage) :
       LET r == create_not(storage, events, a)
       IN  /\ storage' = r.st
           /\ last' = Call("create_gate", "not", <<a>>, r.ret)
           /\ added' = r.added
  /\ modified' = <<>>
  /\ UNCHANGED <<events, nsubst, sim, frame>>

SetValue ==
  /\ \E n \in NodeIds(storage), v \in 0 .. (Pow2(ValueBits) - 1) :
       /\ storage' = set_value(storage, n, v)
       /\ last' = Call("set_value", "", <<n, v>>, 0)
  /\ added' = <<>> /\ modified' = <<>>
  /\ UNCHANGED <<events, nsubst, sim, frame>>

IncrValue ==
  /\ \E n \in NodeIds(storage) :
       LET r == incr_value(storage, n)
       IN  /\ storage' = r.st
           /\ last' = Call("incr_value", "", <<n>>, r.ret)
  /\ added' = <<>> /\ modified' = <<>>
  /\ UNCHANGED <<events, nsubst, sim, frame>>

DecrValue ==
  /\ \E n \in NodeIds(storage) :
       LET r == decr_value(storage, n)
       IN  /\ storage' = r.st
           /\ last' = Call("decr_value", "", <<n>>, r.ret)
  /\ added' = <<>> /\ modified' = <<>>
  /\ UNCHANGED <<events, nsubst, sim, frame>>

ClearValues ==
  /\ storage' = clear_values(storage)
  /\ last' = Call("clear_values", "", <<>>, 0)
  /\ added' = <<>> /\ modified' = <<>>
  /\ UNCHANGED <<events, nsubst, sim, frame>>

SetVisited ==
  /\ \E n \in NodeIds(storage), v \in 0 .. MaxVisited :
       /\ storage' = set_visited(storage, n, v)
       /\ last' = Call("set_visited", "", <<n, v>>, 0)
  /\ added' = <<>> /\ modified' = <<>>
  /\ UNCHANGED <<events, nsubst, sim, frame>>

ClearVisited ==
  /\ storage' = clear_visited(storage)
  /\ last' = Call("clear_visited", "", <<>>, 0)
  /\ added' = <<>> /\ modified' = <<>>
  /\ UNCHANGED <<events, nsubst, sim, frame>>

IncrTravId ==
  /\ trav_id(storage) < MaxTrav
  /\ storage' = incr_trav_id(storage)
  /\ last' = Call("incr_trav_id", "", <<>>, 0)
  /\ added' = <<>> /\ modified' = <<>>
  /\ UNCHANGED <<events, nsubst, sim, frame>>

NextScratch ==
  \/ ScratchCreatePi
  \/ ScratchCreateRo
  \/ ScratchCreateNot
  \/ SetValue
  \/ IncrValue
  \/ DecrValue
  \/ ClearValues
  \/ SetVisited
  \/ ClearVisited
  \/ IncrTravId

SpecScratch == Init /\ [][NextScratch]_vars

ValueOps == {"set_value", "incr_value", "decr_value", "clear_values"}

VisitedOps == {"set_visited", "clear_visited"}

\* everything of the storage but the value slots, the visited slots and
\* trav_id
structure(st) ==
  [nodes   |-> [i \in 1 .. Len(st.nodes) |->
                  [children |-> st.nodes[i].children,
                   fanout   |-> st.nodes[i].fanout,
                   cover    |-> st.nodes[i].cover]],
   covers  |-> st.covers,
   hash    |-> st.hash,
   inputs  |-> st.inputs,
   outputs |-> st.outputs,
   latches |-> st.latches,
   num_pis |-> st.num_pis,
   num_pos |-> st.num_pos]

\* C25: set_value, incr_value, decr_value and clear_values change only value
\* slots (the first three only that of the node named, clear_values sets all
\* to 0), set_visited and clear_visited change only visited slots,
\* incr_trav_id changes only trav_id, by +1; none of them changes a child
\* list, a fanout, a cover reference, the input or output list or size();
\* and a node just created has value 0.
C25_ScratchFields ==
  [][/\ (last'.op \in ValueOps \cup VisitedOps \cup {"incr_trav_id"}) =>
          /\ structure(storage') = structure(storage)
          /\ size(storage') = size(storage)
     /\ (last'.op \in ValueOps) =>
          /\ trav_id(storage') = trav_id(storage)
          /\ \A n \in NodeIds(storage) : visited(storage', n) = visited(storage, n)
     /\ (last'.op \in {"set_value", "incr_value", "decr_value"}) =>
          \A n \in NodeIds(storage) \ {last'.args[1]} :
            value(storage', n) = value(storage, n)
     /\ (last'.op = "clear_values") =>
          \A n \in NodeIds(storage) : value(storage', n) = 0
     /\ (last'.op \in VisitedOps) =>
          /\ trav_id(storage') = trav_id(storage)
          /\ \A n \in NodeIds(storage) : value(storage', n) = value(storage, n)
     /\ (last'.op = "set_visited") =>
          \A n \in NodeIds(storage) \ {last'.args[1]} :
            visited(storage', n) = visited(storage, n)
     /\ (last'.op = "clear_visited") =>
          \A n \in NodeIds(storage) : visited(storage', n) = 0
     /\ (last'.op = "incr_trav_id") =>
          /\ trav_id(storage') = trav_id(storage) + 1
          /\ \A n \in NodeIds(storage) :
               /\ value(storage', n) = value(storage, n)
               /\ visited(storage', n) = visited(storage, n)
     /\ (size(storage') > size(storage)) =>
          \A n \in NodeIds(storage') \ NodeIds(storage) : value(storage', n) = 0
    ]_vars

\* C25 witness: a gate whose child has a value, a visited mark and a fanout
\* was created after the traversal id was raised, and has itself been marked
\* visited
C25_Witness ==
  /\ last.op = "set_visited"
  /\ last.args = <<2, 1>>
  /\ storage.nodes[3].children # <<>>
  /\ visited(storage, 2) = 1
  /\ value(storage, 2) = 0
  /\ \E c \in {0, 1} :
       /\ storage.nodes[3].children = <<c>>
       /\ value(storage, c) = Pow2(ValueBits) - 1
       /\ visited(storage, c) = 1
       /\ fanout_size(storage, c) = 1
  /\ trav_id(storage) = 1

====
